---- MODULE Spec2Model ----
(***************************************************************************)
(* Smart LifeWatching Edge API, Vital Monitoring bounded context.          *)
(*                                                                         *)
(* The module models                                                       *)
(*   - the VitalReading entity (validation, classification, predicates),   *)
(*   - the InMemoryVitalRepository (primary map, per-device index, the     *)
(*     five queries) and the three CQRS handlers,                          *)
(*   - the asyncio request tasks of main.py at statement granularity,      *)
(*   - the VitalReadingDto and the HTTP endpoints of main.py.              *)
(*                                                                         *)
(* Representation.                                                         *)
(*   str        a tuple of one-character strings, <<"a", " ">>              *)
(*   float      a record [nan |-> BOOLEAN, centi |-> Int]: the value in     *)
(*              hundredths of a unit, or the IEEE not-a-number, with which  *)
(*              every ordered comparison is false                           *)
(*   Optional   a tuple of length 0 (None) or 1                             *)
(*   list       a tuple                                                     *)
(*   dict       _readings is a tuple of readings with pairwise distinct     *)
(*              reading_id, in the dict's insertion order (assigning to an  *)
(*              existing key keeps the key's place); _device_readings is a  *)
(*              function whose DOMAIN is the set of keys                    *)
(*   datetime   a natural number of clock ticks                             *)
(*   uuid4()    the next value of a counter: a value never returned before  *)
(***************************************************************************)
EXTENDS Integers, Sequences, FiniteSets, TLC

VARIABLES
    \* ---- entity construction (SpecEntity)
    args,             \* the constructor's arguments
    built,            \* the outcome of the construction, <<>> before it ran
    \* ---- repository and handlers (Spec)
    readings,         \* InMemoryVitalRepository._readings
    device_readings,  \* InMemoryVitalRepository._device_readings
    next_uuid,        \* the next value uuid.uuid4() returns
    clock,            \* the value datetime.utcnow() returned last
    saves,            \* history: the reading handed to every save call, in order
    last,             \* the last operation called, with its arguments and its result
    \* ---- request tasks on the event loop (SpecAsync)
    pc,               \* each task's position
    local,            \* each task's local variables
    running,          \* the task the event loop is running, <<>> when it is idle
    completed         \* history: the reading_id of every save that returned, in order

vars == <<args, built, readings, device_readings, next_uuid, clock, saves, last,
          pc, local, running, completed>>

entityVars == <<args, built>>
asyncVars  == <<pc, local, running, completed>>

-----------------------------------------------------------------------------
(* Values *)

None == <<>>

Some(x) == <<x>>

\* float: a finite value given in hundredths
Num(c) == [nan |-> FALSE, centi |-> c]

\* float('nan')
NaN == [nan |-> TRUE, centi |-> 0]

\* x < n for a float x and an integer literal n
FloatLT(x, n) == ~x.nan /\ x.centi < n * 100

\* x > n for a float x and an integer literal n
FloatGT(x, n) == ~x.nan /\ x.centi > n * 100

Whitespace == {" ", "\t"}

RECURSIVE lstrip(_)
lstrip(s) ==
    IF s = <<>> THEN s
    ELSE IF Head(s) \in Whitespace THEN lstrip(Tail(s)) ELSE s

RECURSIVE rstrip(_)
rstrip(s) ==
    IF s = <<>> THEN s
    ELSE IF s[Len(s)] \in Whitespace THEN rstrip(SubSeq(s, 1, Len(s) - 1)) ELSE s

\* str.strip()
strip(s) == rstrip(lstrip(s))

-----------------------------------------------------------------------------
(* Domain layer: vitals_reading.py *)

HeartRateStatus == {"Low", "Normal", "High"}

WeightAlert == {"Normal", "Overweight"}

WeightMin == 0
WeightMax == 300
HeartRateMin == 30
HeartRateMax == 220
HeartRateLowBelow == 60
HeartRateHighAbove == 100
OverweightAbove == 80
SevereBradycardiaBelow == 40
SevereTachycardiaAbove == 120

\* The validators return the message of the ValueError they raise, "" when
\* they return normally.
validate_device_id(self) ==
    IF self.device_id = <<>> \/ strip(self.device_id) = <<>>
    THEN "Device ID cannot be empty"
    ELSE ""

validate_weight(self) ==
    IF FloatLT(self.weight_kg, WeightMin) THEN "Weight cannot be negative"
    ELSE IF FloatGT(self.weight_kg, WeightMax)
         THEN "Weight exceeds maximum realistic value (300kg)"
    ELSE ""

validate_heart_rate(self) ==
    IF self.heart_rate_bpm < HeartRateMin THEN "Heart rate too low (minimum: 30 BPM)"
    ELSE IF self.heart_rate_bpm > HeartRateMax
         THEN "Heart rate too high (maximum: 220 BPM)"
    ELSE ""

classify_heart_rate_inclusive(self) ==
    IF self.heart_rate_bpm <= HeartRateLowBelow
    THEN [self EXCEPT !.heart_rate_status = Some("Low")]
    ELSE IF HeartRateLowBelow <= self.heart_rate_bpm
            /\ self.heart_rate_bpm <= HeartRateHighAbove
         THEN [self EXCEPT !.heart_rate_status = Some("Normal")]
    ELSE [self EXCEPT !.heart_rate_status = Some("High")]

classify_heart_rate(self) ==
    IF self.heart_rate_bpm < HeartRateLowBelow
    THEN [self EXCEPT !.heart_rate_status = Some("Low")]
    ELSE IF HeartRateLowBelow <= self.heart_rate_bpm
            /\ self.heart_rate_bpm <= HeartRateHighAbove
         THEN [self EXCEPT !.heart_rate_status = Some("Normal")]
    ELSE [self EXCEPT !.heart_rate_status = Some("High")]

classify_weight(self) ==
    IF FloatGT(self.weight_kg, OverweightAbove)
    THEN [self EXCEPT !.weight_alert = Some("Overweight")]
    ELSE [self EXCEPT !.weight_alert = Some("Normal")]

\* The dataclass-generated __init__ has assigned the fields; __post_init__
\* raises the first validator's error or classifies.  The outcome is
\* [error |-> the ValueError's message, "" if none; reading |-> Optional].
post_init(self) ==
    LET e1 == validate_device_id(self)
        e2 == validate_weight(self)
        e3 == validate_heart_rate(self)
    IN  IF e1 # "" THEN [error |-> e1, reading |-> None]
        ELSE IF e2 # "" THEN [error |-> e2, reading |-> None]
        ELSE IF e3 # "" THEN [error |-> e3, reading |-> None]
        ELSE [error |-> "",
              reading |-> Some(classify_weight(classify_heart_rate(self)))]

\* VitalReading(device_id, weight_kg, heart_rate_bpm, reading_id, timestamp,
\*              heart_rate_status, weight_alert)
VitalReading(device_id, weight_kg, heart_rate_bpm, reading_id, timestamp, status, alert) ==
    post_init([device_id |-> device_id, weight_kg |-> weight_kg,
               heart_rate_bpm |-> heart_rate_bpm, reading_id |-> reading_id,
               timestamp |-> timestamp, heart_rate_status |-> status,
               weight_alert |-> alert])

is_critical_heart_only(self) ==
    self.heart_rate_status \in {Some("Low"), Some("High")}

is_critical(self) ==
    \/ self.heart_rate_status \in {Some("Low"), Some("High")}
    \/ self.weight_alert = Some("Overweight")

requires_medical_attention_inclusive(self) ==
    \/ self.heart_rate_bpm <= SevereBradycardiaBelow
    \/ self.heart_rate_bpm > SevereTachycardiaAbove

requires_medical_attention(self) ==
    \/ self.heart_rate_bpm < SevereBradycardiaBelow
    \/ self.heart_rate_bpm > SevereTachycardiaAbove

-----------------------------------------------------------------------------
(* Infrastructure layer: in_memory_vitals_repository.py *)

\* the keys of the dict _readings
keys(rd) == { rd[i].reading_id : i \in DOMAIN rd }

\* rd.get(reading_id)
dict_get(rd, reading_id) ==
    IF reading_id \in keys(rd)
    THEN Some(rd[CHOOSE i \in DOMAIN rd : rd[i].reading_id = reading_id])
    ELSE None

\* rd[r.reading_id] = r: a present key keeps its place in the dict's order
dict_set(rd, r) ==
    IF r.reading_id \in keys(rd)
    THEN [i \in DOMAIN rd |-> IF rd[i].reading_id = r.reading_id THEN r ELSE rd[i]]
    ELSE Append(rd, r)

\* idx[device_id] = ids
index_set(idx, device_id, ids) ==
    [d \in DOMAIN idx \cup {device_id} |-> IF d = device_id THEN ids ELSE idx[d]]

store_reading_latest_only(rd, vital_reading) == <<vital_reading>>

\* save, "Store reading": self._readings[vital_reading.reading_id] = vital_reading
store_reading(rd, vital_reading) == dict_set(rd, vital_reading)

\* save, "Index by device": the test whether the device has an index yet
index_missing(idx, vital_reading) == vital_reading.device_id \notin DOMAIN idx

\* save: self._device_readings[vital_reading.device_id] = []
create_index(idx, vital_reading) == index_set(idx, vital_reading.device_id, <<>>)

append_index_replacing(idx, vital_reading) ==
    index_set(idx, vital_reading.device_id, <<vital_reading.reading_id>>)

\* save: self._device_readings[vital_reading.device_id].append(reading_id)
append_index(idx, vital_reading) ==
    index_set(idx, vital_reading.device_id,
              Append(idx[vital_reading.device_id], vital_reading.reading_id))

\* save: what it makes of _device_readings
index_reading(idx, vital_reading) ==
    append_index(IF index_missing(idx, vital_reading)
                 THEN create_index(idx, vital_reading) ELSE idx,
                 vital_reading)

find_by_id(rd, reading_id) == dict_get(rd, reading_id)

insert_desc_unstable(sorted, r) ==
    LET k == Cardinality({ i \in DOMAIN sorted : sorted[i].timestamp > r.timestamp })
    IN  SubSeq(sorted, 1, k) \o <<r>> \o SubSeq(sorted, k + 1, Len(sorted))

\* The place list.sort gives r among elements already sorted descending: after
\* every element whose key is not smaller (the sort is stable, with
\* reverse=True as well).
insert_desc(sorted, r) ==
    LET k == Cardinality({ i \in DOMAIN sorted : sorted[i].timestamp >= r.timestamp })
    IN  SubSeq(sorted, 1, k) \o <<r>> \o SubSeq(sorted, k + 1, Len(sorted))

\* xs.sort(key=lambda r: r.timestamp, reverse=True)
RECURSIVE sort_by_timestamp_reverse(_)
sort_by_timestamp_reverse(xs) ==
    IF xs = <<>> THEN <<>>
    ELSE insert_desc(sort_by_timestamp_reverse(SubSeq(xs, 1, Len(xs) - 1)), xs[Len(xs)])

\* xs[:limit], for a negative limit as well
slice(xs, limit) ==
    IF limit >= 0
    THEN SubSeq(xs, 1, IF limit < Len(xs) THEN limit ELSE Len(xs))
    ELSE SubSeq(xs, 1, IF Len(xs) + limit > 0 THEN Len(xs) + limit ELSE 0)

\* [self._readings[rid] for rid in reading_ids if rid in self._readings]
materialize(rd, reading_ids) ==
    LET present == SelectSeq(reading_ids, LAMBDA rid : rid \in keys(rd))
    IN  [i \in DOMAIN present |-> dict_get(rd, present[i])[1]]

find_by_device_unsorted(rd, idx, device_id, limit) ==
    IF device_id \notin DOMAIN idx THEN <<>>
    ELSE slice(materialize(rd, idx[device_id]), limit)

find_by_device(rd, idx, device_id, limit) ==
    IF device_id \notin DOMAIN idx THEN <<>>
    ELSE slice(sort_by_timestamp_reverse(materialize(rd, idx[device_id])), limit)

index_sorted_in_place(rd, idx, device_id) ==
    IF device_id \notin DOMAIN idx THEN idx
    ELSE LET rs == sort_by_timestamp_reverse(materialize(rd, idx[device_id]))
         IN  index_set(idx, device_id, [i \in DOMAIN rs |-> rs[i].reading_id])

\* find_by_device, what it leaves of _device_readings: reading_ids is the
\* index's own list, but the comprehension builds a new list, and it is the new
\* list that is sorted and sliced
index_after_find_by_device(rd, idx, device_id) == idx

find_latest_by_device(rd, idx, device_id) ==
    LET rs == find_by_device(rd, idx, device_id, 1)
    IN  IF rs # <<>> THEN Some(rs[1]) ELSE None

count_by_device_all(rd, idx, device_id) == Len(rd)

count_by_device(rd, idx, device_id) ==
    IF device_id \notin DOMAIN idx THEN 0 ELSE Len(idx[device_id])

CriticalLimit == 1000

\* `if device_id:` for an Optional[str]
truthy(device_id) == device_id # None /\ device_id[1] # <<>>

\* list(self._readings.values())
values(rd) == rd

find_critical_readings_unfiltered(rd, idx, device_id) ==
    sort_by_timestamp_reverse(
        IF truthy(device_id) THEN find_by_device(rd, idx, device_id[1], CriticalLimit)
        ELSE values(rd))

\* find_critical_readings, what it leaves of _device_readings: it reads the
\* index through find_by_device only; list(...values()) and the filter build
\* new lists
index_after_find_critical_readings(rd, idx, device_id) ==
    IF truthy(device_id) THEN index_after_find_by_device(rd, idx, device_id[1])
    ELSE idx

find_critical_readings(rd, idx, device_id) ==
    LET rs == IF truthy(device_id)
              THEN find_by_device(rd, idx, device_id[1], CriticalLimit)
              ELSE values(rd)
    IN  sort_by_timestamp_reverse(SelectSeq(rs, is_critical))

-----------------------------------------------------------------------------
(* Inputs of the entity's constructor *)

DeviceIdInputs ==
    { <<>>, <<" ">>, <<" ", "\t">>, <<"a">>, <<"b">>, <<" ", "a">>, <<"a", " ">> }

WeightInputs ==
    { Num(0 - 1), Num(0), Num(7550), Num(8000), Num(8001), Num(8010),
      Num(30000), Num(30001), NaN }

HeartRateInputs == { 29, 30, 39, 40, 59, 60, 72, 100, 101, 120, 121, 220, 221 }

StatusInputs == { None } \cup { Some(s) : s \in HeartRateStatus }

AlertInputs == { None } \cup { Some(a) : a \in WeightAlert }

-----------------------------------------------------------------------------
(* Application layer: the command and query handlers *)

\* VitalReading.to_dict; isoformat() is one-to-one and left as the tick count
to_dict(self) ==
    [reading_id |-> self.reading_id,
     device_id |-> self.device_id,
     weight_kg |-> self.weight_kg,
     heart_rate_bpm |-> self.heart_rate_bpm,
     heart_rate_status |-> self.heart_rate_status,
     weight_alert |-> self.weight_alert,
     is_critical |-> is_critical(self),
     requires_medical_attention |-> requires_medical_attention(self),
     timestamp |-> self.timestamp]

\* RecordVitalReadingCommandHandler.handle, its return value for a saved reading
record_result(saved_reading) ==
    [reading_id |-> saved_reading.reading_id,
     device_id |-> saved_reading.device_id,
     weight_kg |-> saved_reading.weight_kg,
     heart_rate_bpm |-> saved_reading.heart_rate_bpm,
     heart_rate_status |-> saved_reading.heart_rate_status[1],
     weight_alert |-> saved_reading.weight_alert[1],
     is_critical |-> is_critical(saved_reading),
     requires_medical_attention |-> requires_medical_attention(saved_reading),
     timestamp |-> saved_reading.timestamp]

get_device_status_counting_all(rd, idx, device_id) ==
    LET latest_reading == find_latest_by_device(rd, idx, device_id)
    IN  IF latest_reading = None THEN None
        ELSE LET r == latest_reading[1]
             IN  Some([device_id |-> device_id,
                       is_active |-> TRUE,
                       last_contact |-> r.timestamp,
                       total_readings |-> Len(rd),
                       current_status |->
                           [weight_kg |-> r.weight_kg,
                            heart_rate_bpm |-> r.heart_rate_bpm,
                            heart_rate_status |-> r.heart_rate_status[1],
                            weight_alert |-> r.weight_alert[1],
                            is_critical |-> is_critical(r),
                            requires_medical_attention |-> requires_medical_attention(r)],
                       latest_reading |-> to_dict(r)])

\* GetDeviceStatusQueryHandler.handle
get_device_status(rd, idx, device_id) ==
    LET latest_reading == find_latest_by_device(rd, idx, device_id)
    IN  IF latest_reading = None THEN None
        ELSE LET total_readings == count_by_device(rd, idx, device_id)
                 r == latest_reading[1]
             IN  Some([device_id |-> device_id,
                       is_active |-> TRUE,
                       last_contact |-> r.timestamp,
                       total_readings |-> total_readings,
                       current_status |->
                           [weight_kg |-> r.weight_kg,
                            heart_rate_bpm |-> r.heart_rate_bpm,
                            heart_rate_status |-> r.heart_rate_status[1],
                            weight_alert |-> r.weight_alert[1],
                            is_critical |-> is_critical(r),
                            requires_medical_attention |-> requires_medical_attention(r)],
                       latest_reading |-> to_dict(r)])

\* GetVitalHistoryQueryHandler.handle
get_vital_history(rd, idx, device_id, limit) ==
    LET rs == find_by_device(rd, idx, device_id, limit)
    IN  [i \in DOMAIN rs |-> to_dict(rs[i])]

DefaultLimit == 50

-----------------------------------------------------------------------------
(* Bounds and inputs of the repository's and the handlers' operations *)

MaxSaves == 3

\* as many instants as readings, so that all of a store's readings can differ in
\* their timestamps
MaxTime == MaxSaves

Timestamps == 1 .. MaxTime

\* device ids of the readings handed to save
SaveDeviceInputs == { <<"a">>, <<"b">> }

\* (weight_kg, heart_rate_bpm) of the readings handed to save: normal, critical
SaveVitalsInputs == { <<Num(7550), 72>>, <<Num(7550), 130>> }

\* device ids a command carries
CommandDeviceInputs == { <<"a">>, <<"b">>, <<" ">> }

\* (weight_kg, heart_rate_bpm) a command carries: normal, heart rate out of
\* bounds, not a number
CommandVitalsInputs == { <<Num(7550), 72>>, <<Num(7550), 29>>, <<NaN, 72>> }

\* device ids a query asks for: the two that may have readings (and have none
\* before their first save) and the empty string
QueryDeviceInputs == { <<"a">>, <<"b">>, <<>> }

\* limits: negative, zero, up to the number of readings, and the default
LimitInputs == ((0 - 1) .. MaxSaves) \cup { DefaultLimit }

ReadingIdInputs == 1 .. (MaxSaves + 1)

-----------------------------------------------------------------------------
(* Initial values of the variables a specification leaves alone *)

EntityIdle == args = None /\ built = None

StoreEmpty ==
    /\ readings = <<>>
    /\ device_readings = <<>>
    /\ next_uuid = 1
    /\ clock = 1
    /\ saves = <<>>
    /\ last = None

AsyncIdle ==
    /\ pc = <<>>
    /\ local = <<>>
    /\ running = None
    /\ completed = <<>>

-----------------------------------------------------------------------------
(* SpecEntity: one construction of a VitalReading from arbitrary arguments *)

InitEntity ==
    /\ args \in [device_id : DeviceIdInputs, weight_kg : WeightInputs,
                 heart_rate_bpm : HeartRateInputs,
                 heart_rate_status : StatusInputs, weight_alert : AlertInputs]
    /\ built = None
    /\ StoreEmpty
    /\ AsyncIdle

\* VitalReading(**args): reading_id and timestamp take their default factories
ConstructReading ==
    /\ built = None
    /\ built' = Some(VitalReading(args.device_id, args.weight_kg,
                                  args.heart_rate_bpm, next_uuid, clock,
                                  args.heart_rate_status, args.weight_alert))
    /\ next_uuid' = next_uuid + 1
    /\ UNCHANGED <<args, readings, device_readings, clock, saves, last>>
    /\ UNCHANGED asyncVars

NextEntity == ConstructReading

SpecEntity == InitEntity /\ [][NextEntity]_vars

Constructed == built # None /\ built[1].error = ""

Rejected == built # None /\ built[1].error # ""

\* 0 <= w <= 300 for a float w, as the claim reads it
WeightInBounds(w) == ~w.nan /\ 0 <= w.centi /\ w.centi <= 30000

\* the message of the first violated rule, in the order of the claim; "" if none
FirstViolatedRule(a) ==
    IF strip(a.device_id) = <<>> THEN "Device ID cannot be empty"
    ELSE IF ~a.weight_kg.nan /\ a.weight_kg.centi < 0 THEN "Weight cannot be negative"
    ELSE IF ~WeightInBounds(a.weight_kg)
         THEN "Weight exceeds maximum realistic value (300kg)"
    ELSE IF a.heart_rate_bpm < 30 THEN "Heart rate too low (minimum: 30 BPM)"
    ELSE IF a.heart_rate_bpm > 220 THEN "Heart rate too high (maximum: 220 BPM)"
    ELSE ""

\* C1: the construction succeeds iff device_id is non-empty after trimming,
\* 0 <= weight_kg <= 300 and 30 <= heart_rate_bpm <= 220, and otherwise fails
\* with the single message of the first violated rule (device id empty, weight
\* negative, weight above 300, heart rate below 30, heart rate above 220).
C1_ConstructionSucceedsIffValid ==
    built # None =>
        /\ built[1].error = "" <=>
              /\ strip(args.device_id) # <<>>
              /\ WeightInBounds(args.weight_kg)
              /\ 30 <= args.heart_rate_bpm /\ args.heart_rate_bpm <= 220
        /\ built[1].error = FirstViolatedRule(args)
        /\ built[1].error = "" <=> built[1].reading # None

\* C1 restricted to weights that are numbers: what the validators do decide
C1_HoldsForNumbers ==
    (built # None /\ ~args.weight_kg.nan) =>
        /\ built[1].error = FirstViolatedRule(args)
        /\ built[1].error = "" <=> built[1].reading # None

\* C2: every constructed reading carries heart_rate_status Low iff
\* heart_rate_bpm < 60, High iff heart_rate_bpm > 100, Normal otherwise, and
\* weight_alert Overweight iff weight_kg > 80, Normal otherwise, whatever
\* heart_rate_status and weight_alert the caller passed.
C2_ClassificationsMatchFormulas ==
    Constructed =>
        LET r == built[1].reading[1]
            w == args.weight_kg
        IN  /\ r.heart_rate_bpm = args.heart_rate_bpm /\ r.weight_kg = w
            /\ r.heart_rate_status =
                 Some(IF args.heart_rate_bpm < 60 THEN "Low"
                      ELSE IF args.heart_rate_bpm > 100 THEN "High" ELSE "Normal")
            /\ r.weight_alert =
                 Some(IF ~w.nan /\ w.centi > 8000 THEN "Overweight" ELSE "Normal")

\* a reading at the boundary 60 bpm and 80 kg, built from a caller who passed
\* High and Overweight
C2_Witness ==
    /\ Constructed
    /\ args.heart_rate_bpm = 60 /\ args.weight_kg = Num(8000)
    /\ args.heart_rate_status = Some("High") /\ args.weight_alert = Some("Overweight")
    /\ built[1].reading[1].heart_rate_status = Some("Normal")
    /\ built[1].reading[1].weight_alert = Some("Normal")

\* C3: for every constructed reading is_critical() is true iff heart_rate_status
\* is Low or High or weight_alert is Overweight, that is iff heart_rate_bpm < 60
\* or heart_rate_bpm > 100 or weight_kg > 80.
C3_CriticalIffOutsideNormalBand ==
    Constructed =>
        LET r == built[1].reading[1]
            w == args.weight_kg
        IN  /\ is_critical(r) <=>
                 \/ r.heart_rate_status = Some("Low")
                 \/ r.heart_rate_status = Some("High")
                 \/ r.weight_alert = Some("Overweight")
            /\ is_critical(r) <=>
                 \/ args.heart_rate_bpm < 60
                 \/ args.heart_rate_bpm > 100
                 \/ (~w.nan /\ w.centi > 8000)

\* a reading that is critical by its weight alone
C3_Witness ==
    /\ Constructed
    /\ args.heart_rate_bpm = 72 /\ args.weight_kg = Num(8001)
    /\ is_critical(built[1].reading[1])

\* C4: for every constructed reading requires_medical_attention() is true iff
\* heart_rate_bpm is in 30..39 or 121..220, false for 40..120, whatever the
\* weight.
C4_MedicalAttentionIffSevere ==
    Constructed =>
        LET r == built[1].reading[1]
        IN  /\ requires_medical_attention(r) <=>
                 args.heart_rate_bpm \in (30 .. 39) \cup (121 .. 220)
            /\ args.heart_rate_bpm \in 40 .. 120 => ~requires_medical_attention(r)

\* an overweight reading at 40 bpm, which needs no medical attention
C4_Witness ==
    /\ Constructed
    /\ args.heart_rate_bpm = 40 /\ args.weight_kg = Num(30000)
    /\ ~requires_medical_attention(built[1].reading[1])

-----------------------------------------------------------------------------
(* Spec: the repository and the handlers, one call at a time.  A call runs to
   its return without interruption: no method of the repository or of a
   handler awaits anything but a repository method, and none of those
   suspends.  `last` holds the call and what it returned until the caller has
   taken it. *)

Call(op, device_id, limit, reading_id, result, error) ==
    Some([op |-> op, device_id |-> device_id, limit |-> limit,
          reading_id |-> reading_id, result |-> result, error |-> error])

Init ==
    /\ EntityIdle
    /\ StoreEmpty
    /\ AsyncIdle

\* await repository.save(vital_reading), for a reading the caller constructed
\* with a timestamp of its choice and either a fresh reading_id (the default
\* factory) or one that is stored already
Save ==
    /\ last = None
    /\ Len(saves) < MaxSaves
    /\ \E device_id \in SaveDeviceInputs, v \in SaveVitalsInputs,
          timestamp \in Timestamps, reading_id \in keys(readings) \cup {next_uuid} :
          LET o == VitalReading(device_id, v[1], v[2], reading_id, timestamp, None, None)
          IN  /\ o.error = ""
              /\ readings' = store_reading(readings, o.reading[1])
              /\ device_readings' = index_reading(device_readings, o.reading[1])
              /\ saves' = Append(saves, o.reading[1])
              /\ next_uuid' = IF reading_id = next_uuid THEN next_uuid + 1 ELSE next_uuid
              /\ last' = Call("save", Some(device_id), 0, reading_id, o.reading, "")
    /\ UNCHANGED <<clock>>
    /\ UNCHANGED entityVars
    /\ UNCHANGED asyncVars

\* RecordVitalReadingCommandHandler(repository).handle(command): reading_id and
\* timestamp come from uuid4() and utcnow().  A uuid drawn for a reading whose
\* construction fails is never seen again and is not counted.
Record ==
    /\ last = None
    /\ Len(saves) < MaxSaves
    /\ \E device_id \in CommandDeviceInputs, v \in CommandVitalsInputs,
          now \in clock .. MaxTime :
          LET o == VitalReading(device_id, v[1], v[2], next_uuid, now, None, None)
          IN  /\ clock' = now
              /\ IF o.error # ""
                 THEN /\ last' = Call("record", Some(device_id), 0, 0, None, o.error)
                      /\ UNCHANGED <<readings, device_readings, saves, next_uuid>>
                 ELSE /\ readings' = store_reading(readings, o.reading[1])
                      /\ device_readings' = index_reading(device_readings, o.reading[1])
                      /\ saves' = Append(saves, o.reading[1])
                      /\ next_uuid' = next_uuid + 1
                      /\ last' = Call("record", Some(device_id), 0, next_uuid,
                                      Some(record_result(o.reading[1])), "")
    /\ UNCHANGED entityVars
    /\ UNCHANGED asyncVars

FindById ==
    /\ last = None
    /\ \E reading_id \in ReadingIdInputs :
          last' = Call("find_by_id", None, 0, reading_id,
                       find_by_id(readings, reading_id), "")
    /\ UNCHANGED <<readings, device_readings, next_uuid, clock, saves>>
    /\ UNCHANGED entityVars
    /\ UNCHANGED asyncVars

FindByDevice ==
    /\ last = None
    /\ \E device_id \in QueryDeviceInputs, limit \in LimitInputs :
          /\ device_readings' =
                 index_after_find_by_device(readings, device_readings, device_id)
          /\ last' = Call("find_by_device", Some(device_id), limit, 0,
                       find_by_device(readings, device_readings, device_id, limit), "")
    /\ UNCHANGED <<readings, next_uuid, clock, saves>>
    /\ UNCHANGED entityVars
    /\ UNCHANGED asyncVars

FindLatestByDevice ==
    /\ last = None
    /\ \E device_id \in QueryDeviceInputs :
          /\ device_readings' =
                 index_after_find_by_device(readings, device_readings, device_id)
          /\ last' = Call("find_latest_by_device", Some(device_id), 0, 0,
                       find_latest_by_device(readings, device_readings, device_id), "")
    /\ UNCHANGED <<readings, next_uuid, clock, saves>>
    /\ UNCHANGED entityVars
    /\ UNCHANGED asyncVars

CountByDevice ==
    /\ last = None
    /\ \E device_id \in QueryDeviceInputs :
          last' = Call("count_by_device", Some(device_id), 0, 0,
                       count_by_device(readings, device_readings, device_id), "")
    /\ UNCHANGED <<readings, device_readings, next_uuid, clock, saves>>
    /\ UNCHANGED entityVars
    /\ UNCHANGED asyncVars

FindCriticalReadings ==
    /\ last = None
    /\ \E device_id \in { None } \cup { Some(d) : d \in QueryDeviceInputs } :
          /\ device_readings' =
                 index_after_find_critical_readings(readings, device_readings, device_id)
          /\ last' = Call("find_critical_readings", device_id, 0, 0,
                       find_critical_readings(readings, device_readings, device_id), "")
    /\ UNCHANGED <<readings, next_uuid, clock, saves>>
    /\ UNCHANGED entityVars
    /\ UNCHANGED asyncVars

\* GetDeviceStatusQueryHandler(repository).handle(GetDeviceStatusQuery(device_id))
GetDeviceStatus ==
    /\ last = None
    /\ \E device_id \in QueryDeviceInputs :
          /\ device_readings' =
                 index_after_find_by_device(readings, device_readings, device_id)
          /\ last' = Call("get_device_status", Some(device_id), 0, 0,
                       get_device_status(readings, device_readings, device_id), "")
    /\ UNCHANGED <<readings, next_uuid, clock, saves>>
    /\ UNCHANGED entityVars
    /\ UNCHANGED asyncVars

\* GetVitalHistoryQueryHandler(repository).handle(GetVitalHistoryQuery(device_id, limit))
GetVitalHistory ==
    /\ last = None
    /\ \E device_id \in QueryDeviceInputs, limit \in LimitInputs :
          /\ device_readings' =
                 index_after_find_by_device(readings, device_readings, device_id)
          /\ last' = Call("get_vital_history", Some(device_id), limit, 0,
                       get_vital_history(readings, device_readings, device_id, limit), "")
    /\ UNCHANGED <<readings, next_uuid, clock, saves>>
    /\ UNCHANGED entityVars
    /\ UNCHANGED asyncVars

\* the caller has taken the result of its call
Return ==
    /\ last # None
    /\ last' = None
    /\ UNCHANGED <<readings, device_readings, next_uuid, clock, saves>>
    /\ UNCHANGED entityVars
    /\ UNCHANGED asyncVars

Next ==
    \/ Save
    \/ Record
    \/ FindById
    \/ FindByDevice
    \/ FindLatestByDevice
    \/ CountByDevice
    \/ FindCriticalReadings
    \/ GetDeviceStatus
    \/ GetVitalHistory
    \/ Return

Spec == Init /\ [][Next]_vars

-----------------------------------------------------------------------------
(* Properties of the repository *)

Range(xs) == { xs[i] : i \in DOMAIN xs }

\* the readings handed to save for device D, in the order of the calls
SavedFor(D) == SelectSeq(saves, LAMBDA r : r.device_id = D)

\* no reading_id was handed to save twice
UniqueIds ==
    \A i, j \in DOMAIN saves : i # j => saves[i].reading_id # saves[j].reading_id

DistinctTimestamps(rs) ==
    \A i, j \in DOMAIN rs : i # j => rs[i].timestamp # rs[j].timestamp

StrictlyDescending(rs) ==
    \A i \in 1 .. (Len(rs) - 1) : rs[i].timestamp > rs[i + 1].timestamp

Descending(rs) ==
    \A i \in 1 .. (Len(rs) - 1) : rs[i].timestamp >= rs[i + 1].timestamp

Returned(op) == last # None /\ last[1].op = op

\* what C5 says of a find_by_device(D, limit) that returned res, N readings
\* with pairwise distinct timestamps having been saved for D
MostRecentFirst(res, saved, limit) ==
    LET N == Len(saved)
    IN  /\ limit = N =>
              /\ Len(res) = N
              /\ Range(res) = Range(saved)
              /\ StrictlyDescending(res)
        /\ (0 < limit /\ limit < N) =>
              /\ Len(res) = limit
              /\ Range(res) \subseteq Range(saved)
              /\ StrictlyDescending(res)
              /\ \A x \in Range(res), y \in Range(saved) \ Range(res) :
                    x.timestamp > y.timestamp

\* C5 as stated: after N readings with pairwise distinct timestamps were saved
\* for D, find_by_device(D, N) returns exactly those N readings strictly
\* descending by timestamp and find_by_device(D, k), 0 < k < N, exactly the k
\* readings with the greatest timestamps, descending.
C5_AsStated ==
    Returned("find_by_device") =>
        LET saved == SavedFor(last[1].device_id[1])
        IN  (saved # <<>> /\ DistinctTimestamps(saved)) =>
                MostRecentFirst(last[1].result, saved, last[1].limit)

\* C5, amended: the same, provided no reading_id was handed to save twice.
C5_MostRecentFirst ==
    Returned("find_by_device") =>
        LET saved == SavedFor(last[1].device_id[1])
        IN  (UniqueIds /\ saved # <<>> /\ DistinctTimestamps(saved)) =>
                MostRecentFirst(last[1].result, saved, last[1].limit)

\* find_by_device(D, 2) has returned two of the three readings of D, which had
\* been saved neither in ascending nor in descending order of their timestamps
C5_Witness ==
    /\ Returned("find_by_device")
    /\ UniqueIds
    /\ LET saved == SavedFor(last[1].device_id[1])
       IN  /\ Len(saved) = 3
           /\ DistinctTimestamps(saved)
           /\ saved[1].timestamp < saved[2].timestamp
           /\ saved[3].timestamp < saved[1].timestamp
    /\ last[1].limit = 2
    /\ Len(last[1].result) = 2

\* the calls of save, by their place in the history, that handed over reading r
SavedAt(r) == { i \in DOMAIN saves : saves[i] = r }

\* what C6 says of a find_by_device(D, limit) that returned res: it is the
\* first part, cut at limit, of an ordering of D's readings in which the
\* timestamps descend and equal timestamps follow the order of the saves
TiesInSaveOrder(res, rd, idx, D, limit) ==
    LET all == find_by_device(rd, idx, D, Len(saves))
    IN  /\ Descending(res)
        /\ \A i, j \in DOMAIN res :
              (i < j /\ res[i].timestamp = res[j].timestamp /\ res[i] # res[j]) =>
                  \E m \in SavedAt(res[i]), n \in SavedAt(res[j]) : m < n
        /\ limit >= 0 => res = SubSeq(all, 1, IF limit < Len(all) THEN limit ELSE Len(all))

\* C6 as stated: among readings of one device with equal timestamps, the one
\* saved earlier comes before the one saved later, and the result is cut to
\* limit after this ordering.
C6_AsStated ==
    Returned("find_by_device") =>
        TiesInSaveOrder(last[1].result, readings, device_readings,
                        last[1].device_id[1], last[1].limit)

\* C6, amended: the same, provided no reading_id was handed to save twice.
C6_StableTies ==
    (Returned("find_by_device") /\ UniqueIds) =>
        TiesInSaveOrder(last[1].result, readings, device_readings,
                        last[1].device_id[1], last[1].limit)

\* find_by_device(D, 2) has returned the first two of three readings of D: the
\* newest, saved last, and the earlier saved of two with equal timestamps
C6_Witness ==
    /\ Returned("find_by_device")
    /\ UniqueIds
    /\ LET saved == SavedFor(last[1].device_id[1])
       IN  /\ Len(saved) = 3
           /\ saved[1].timestamp = saved[2].timestamp
           /\ saved[3].timestamp > saved[1].timestamp
           /\ last[1].limit = 2
           /\ last[1].result = <<saved[3], saved[1]>>

OnlyCritical(res) == \A r \in Range(res) : is_critical(r)

OnlyOfDevice(res, D) == \A r \in Range(res) : r.device_id = D

\* the critical readings of all devices, each once
AllCritical(res, rd) ==
    /\ Range(res) = { r \in Range(rd) : is_critical(r) }
    /\ Len(res) = Cardinality(Range(res))

\* C7 as stated: find_critical_readings(D) returns only critical readings of
\* device D, descending by timestamp; find_critical_readings() returns the
\* critical readings of all devices, descending by timestamp.
C7_AsStated ==
    Returned("find_critical_readings") =>
        /\ OnlyCritical(last[1].result)
        /\ Descending(last[1].result)
        /\ last[1].device_id # None =>
              OnlyOfDevice(last[1].result, last[1].device_id[1])
        /\ last[1].device_id = None => AllCritical(last[1].result, readings)

\* C7, amended: the readings are of device D when D is not the empty string
\* and no reading_id was handed to save twice; the empty string is taken as no
\* device.
C7_CriticalOnly ==
    Returned("find_critical_readings") =>
        /\ OnlyCritical(last[1].result)
        /\ Descending(last[1].result)
        /\ (last[1].device_id # None /\ last[1].device_id[1] # <<>> /\ UniqueIds) =>
              OnlyOfDevice(last[1].result, last[1].device_id[1])
        /\ (last[1].device_id = None \/ last[1].device_id = Some(<<>>)) =>
              AllCritical(last[1].result, readings)

\* find_critical_readings(D) has returned the one critical reading of D, which
\* has a reading that is not critical too, another device having a critical one
C7_Witness ==
    /\ Returned("find_critical_readings")
    /\ UniqueIds
    /\ last[1].device_id # None
    /\ Len(last[1].result) = 1
    /\ LET D == last[1].device_id[1]
       IN  /\ \E r \in Range(SavedFor(D)) : ~is_critical(r)
           /\ \E r \in Range(saves) : r.device_id # D /\ is_critical(r)

\* the reading_ids handed to save for device D, in the order of the calls
SavedIds(D) == [i \in DOMAIN SavedFor(D) |-> SavedFor(D)[i].reading_id]

NoDuplicates(xs) == \A i, j \in DOMAIN xs : i # j => xs[i] # xs[j]

\* the index of D lists, in insertion order and each once, the ids of exactly
\* the stored readings of D
ListsStoredReadingsOf(ids, D) ==
    /\ NoDuplicates(ids)
    /\ Range(ids) = { r.reading_id : r \in { x \in Range(readings) : x.device_id = D } }
    /\ ids = SavedIds(D)

\* C8 as stated: in every state each device's index lists, in insertion order
\* and each exactly once, the ids of exactly the stored readings of that
\* device, and every id in an index is a key of the primary map.
C8_AsStated ==
    /\ \A r \in Range(readings) : r.device_id \in DOMAIN device_readings
    /\ \A D \in DOMAIN device_readings :
          /\ ListsStoredReadingsOf(device_readings[D], D)
          /\ Range(device_readings[D]) \subseteq keys(readings)

\* C8, amended: in every state each device's index lists, in the order of the
\* saves and once per save, the ids handed to save for that device, every id
\* in an index is a key of the primary map and every stored reading's id is in
\* its device's index; when no reading_id was handed to save twice, that is
\* each exactly once the ids of exactly the stored readings of the device.
C8_IndexConsistent ==
    /\ DOMAIN device_readings = { r.device_id : r \in Range(saves) }
    /\ \A r \in Range(readings) :
          /\ r.device_id \in DOMAIN device_readings
          /\ r.reading_id \in Range(device_readings[r.device_id])
    /\ \A D \in DOMAIN device_readings :
          /\ device_readings[D] = SavedIds(D)
          /\ Range(device_readings[D]) \subseteq keys(readings)
          /\ UniqueIds => ListsStoredReadingsOf(device_readings[D], D)
    /\ UniqueIds => readings = saves

\* a save has returned that put a second id into one device's index, next to
\* the index of another device
C8_Witness ==
    /\ Returned("save")
    /\ UniqueIds
    /\ Cardinality(DOMAIN device_readings) = 2
    /\ Len(device_readings[last[1].device_id[1]]) = 2
    /\ device_readings[last[1].device_id[1]][2] = last[1].reading_id

\* the reading_ids handed to save so far
EverSavedIds == { saves[i].reading_id : i \in DOMAIN saves }

\* C11: for a device id with no saved reading find_by_device returns the empty
\* sequence, count_by_device 0 and find_latest_by_device None, and for a
\* reading id never saved find_by_id returns None; none of them raises.
C11_NotFoundIsAbsence ==
    last # None =>
        LET c == last[1]
        IN  /\ (c.op = "find_by_device" /\ SavedFor(c.device_id[1]) = <<>>) =>
                  c.result = <<>> /\ c.error = ""
            /\ (c.op = "count_by_device" /\ SavedFor(c.device_id[1]) = <<>>) =>
                  c.result = 0 /\ c.error = ""
            /\ (c.op = "find_latest_by_device" /\ SavedFor(c.device_id[1]) = <<>>) =>
                  c.result = None /\ c.error = ""
            /\ (c.op = "find_by_id" /\ c.reading_id \notin EverSavedIds) =>
                  c.result = None /\ c.error = ""

\* count_by_device has returned 0 for a device without readings while the store
\* holds two readings of another device
C11_Witness ==
    /\ Returned("count_by_device")
    /\ SavedFor(last[1].device_id[1]) = <<>>
    /\ last[1].device_id[1] \in SaveDeviceInputs
    /\ Len(readings) = 2
    /\ last[1].result = 0

\* count_by_device never decreases, for any device
CountNeverDecreases ==
    \A D \in SaveDeviceInputs \cup QueryDeviceInputs :
        count_by_device(readings', device_readings', D)
            >= count_by_device(readings, device_readings, D)

\* this step is a save of a reading with the given id
SavesId(reading_id) ==
    /\ Len(saves') = Len(saves) + 1
    /\ saves'[Len(saves')].reading_id = reading_id

\* C12 as stated: a saved reading is never deleted or replaced, find_by_id of
\* its id returns it with unchanged fields in every later state, and
\* count_by_device never decreases for any device.
C12_AsStated ==
    [][ /\ \A r \in Range(readings) :
              find_by_id(readings', r.reading_id) = Some(r)
        /\ CountNeverDecreases ]_vars

\* C12, amended: the id of a saved reading is never removed from the primary
\* map and find_by_id of it returns the reading with unchanged fields until a
\* later save is given a reading with the same id, which replaces it;
\* count_by_device never decreases for any device.
C12_AppendOnly ==
    [][ /\ \A r \in Range(readings) :
              /\ r.reading_id \in keys(readings')
              /\ ~SavesId(r.reading_id) =>
                    find_by_id(readings', r.reading_id) = Some(r)
              /\ SavesId(r.reading_id) =>
                    find_by_id(readings', r.reading_id) = Some(saves'[Len(saves')])
        /\ Len(readings') >= Len(readings)
        /\ CountNeverDecreases ]_vars

\* find_by_id has returned the reading saved first, two more readings with
\* other ids having been saved after it
C12_Witness ==
    /\ Returned("find_by_id")
    /\ Len(saves) = 3
    /\ UniqueIds
    /\ last[1].result = Some(saves[1])

\* a record command has failed in this step
RecordFails == last' # None /\ last'[1].op = "record" /\ last'[1].error # ""

\* a failed record command leaves the primary map and every index as they were
FailedRecordLeavesStore ==
    [][ RecordFails => readings' = readings /\ device_readings' = device_readings ]_vars

\* the reading has its classifications set
Classified(r) == r.heart_rate_status # None /\ r.weight_alert # None

\* the reading's fields are within the bounds of the validation rules
ValidBounds(r) ==
    /\ strip(r.device_id) # <<>>
    /\ WeightInBounds(r.weight_kg)
    /\ 30 <= r.heart_rate_bpm /\ r.heart_rate_bpm <= 220

\* C14: a record command whose inputs fail validation leaves the primary map
\* and every device index exactly as before, and only validated readings, with
\* valid bounds and their classifications set, are ever present in the store.
C14_OnlyValidReadingsStored ==
    /\ FailedRecordLeavesStore
    /\ [](\A r \in Range(readings) : ValidBounds(r) /\ Classified(r))

\* what does hold: a failed record command leaves the store as it was, and every
\* stored reading is classified and, unless its weight is not a number, within
\* the bounds
C14_HoldsForNumbers ==
    /\ FailedRecordLeavesStore
    /\ [](\A r \in Range(readings) :
            /\ Classified(r)
            /\ ~r.weight_kg.nan => ValidBounds(r))

-----------------------------------------------------------------------------
(* Infrastructure layer: vitals_reading_dto.py.  pydantic checks a field's
   Field(...) constraints, then runs the field's validator; it checks every
   field and reports the errors of all of them.  Each step returns
   [error |-> the message, "" if none; value |-> the field's value]. *)

MinLength == 1
MaxLength == 100

\* round(v, 1).  A weight whose hundredths digit is 5 lies between two tenths;
\* the inputs are chosen off such values.
round1(v) ==
    IF v.nan THEN v
    ELSE LET q == v.centi \div 10
             m == v.centi % 10
         IN  Num(IF m < 5 THEN q * 10
                 ELSE IF m > 5 THEN (q + 1) * 10
                 ELSE IF q % 2 = 0 THEN q * 10 ELSE (q + 1) * 10)

\* device_id: Field(min_length=1, max_length=100), validate_device_id
dto_device_id(v) ==
    IF Len(v) < MinLength
    THEN [error |-> "ensure this value has at least 1 characters", value |-> v]
    ELSE IF Len(v) > MaxLength
    THEN [error |-> "ensure this value has at most 100 characters", value |-> v]
    ELSE IF v = <<>> \/ strip(v) = <<>>
    THEN [error |-> "device_id cannot be empty", value |-> v]
    ELSE [error |-> "", value |-> strip(v)]

\* weight_kg: Field(ge=0, le=300), validate_weight.  Whether a not-a-number
\* passes the constraint ge=0 depends on how the installed pydantic writes the
\* comparison (`not v >= 0` rejects it, `v < 0` lets it pass): nan_in_bounds
\* says which.
dto_weight_kg(v, nan_in_bounds) ==
    IF FloatLT(v, WeightMin) \/ (v.nan /\ ~nan_in_bounds)
    THEN [error |-> "ensure this value is greater than or equal to 0", value |-> v]
    ELSE IF FloatGT(v, WeightMax)
    THEN [error |-> "ensure this value is less than or equal to 300", value |-> v]
    ELSE [error |-> "", value |-> round1(v)]

\* heart_rate_bpm: Field(ge=30, le=220), validate_heart_rate
dto_heart_rate_bpm(v) ==
    IF v < HeartRateMin
    THEN [error |-> "ensure this value is greater than or equal to 30", value |-> v]
    ELSE IF v > HeartRateMax
    THEN [error |-> "ensure this value is less than or equal to 220", value |-> v]
    ELSE [error |-> "", value |-> v]

\* VitalReadingDto(device_id=..., weight_kg=..., heart_rate_bpm=...): the
\* outcome is [errors |-> the (field, message) pairs of the ValidationError,
\* empty if none; dto |-> Optional]
VitalReadingDto(device_id, weight_kg, heart_rate_bpm, nan_in_bounds) ==
    LET d == dto_device_id(device_id)
        w == dto_weight_kg(weight_kg, nan_in_bounds)
        h == dto_heart_rate_bpm(heart_rate_bpm)
        errors == { e \in { <<"device_id", d.error>>, <<"weight_kg", w.error>>,
                            <<"heart_rate_bpm", h.error>> } : e[2] # "" }
    IN  [errors |-> errors,
         dto |-> IF errors = {}
                 THEN Some([device_id |-> d.value, weight_kg |-> w.value,
                            heart_rate_bpm |-> h.value])
                 ELSE None]

-----------------------------------------------------------------------------
(* SpecAdapter: the endpoints of main.py over the shared repository, one
   request at a time.  `last` holds the request and the response. *)

HTTP_200_OK == 200
HTTP_201_CREATED == 201
HTTP_202_ACCEPTED == 202
HTTP_400_BAD_REQUEST == 400
HTTP_404_NOT_FOUND == 404
HTTP_422_UNPROCESSABLE_ENTITY == 422
HTTP_500_INTERNAL_SERVER_ERROR == 500

\* what a client sends as device_id, weight and heart rate
BodyDeviceInputs == { <<"a">>, <<"b">>, <<" ", "a">>, <<" ">>, <<>> }

BodyWeightInputs == { Num(7554), Num(0 - 1), Num(30001), NaN }

BodyHeartRateInputs == { 72, 29, 221 }

\* a device id in the path of a GET request
PathDeviceInputs == { <<"a">>, <<"b">> }

Response(op, request, status_code, detail, data) ==
    Some([op |-> op, request |-> request, status_code |-> status_code,
          detail |-> detail, data |-> data])

\* the response's JSON is rendered with allow_nan=False: a not-a-number in the
\* content raises, and the framework answers 500
renders(weight_kg) == ~weight_kg.nan

\* the status code of a response whose content holds the given weights
rendered(status_code, weights) ==
    IF \A w \in weights : renders(w) THEN status_code
    ELSE HTTP_500_INTERNAL_SERVER_ERROR

\* POST /api/v1/vital-monitoring/readings.  The framework builds the parameter
\* dto from the body before it calls record_vital_reading, and answers a
\* ValidationError itself, with 422 and the list of errors.
PostReadings ==
    /\ last = None
    /\ \E device_id \in BodyDeviceInputs, weight_kg \in BodyWeightInputs,
          heart_rate_bpm \in BodyHeartRateInputs, nan_in_bounds \in BOOLEAN,
          now \in clock .. MaxTime :
          LET request == [device_id |-> device_id, weight_kg |-> weight_kg,
                          heart_rate_bpm |-> heart_rate_bpm]
              v == VitalReadingDto(device_id, weight_kg, heart_rate_bpm, nan_in_bounds)
          IN  IF v.errors # {}
              THEN /\ last' = Response("record_vital_reading", request,
                                       HTTP_422_UNPROCESSABLE_ENTITY, v.errors, None)
                   /\ UNCHANGED <<readings, device_readings, saves, next_uuid, clock>>
              ELSE LET dto == v.dto[1]
                       o == VitalReading(dto.device_id, dto.weight_kg,
                                         dto.heart_rate_bpm, next_uuid, now, None, None)
                   IN  /\ clock' = now
                       /\ IF o.error # ""
                          THEN /\ last' = Response("record_vital_reading", request,
                                                   HTTP_400_BAD_REQUEST, {o.error}, None)
                               /\ UNCHANGED <<readings, device_readings, saves, next_uuid>>
                          ELSE /\ Len(saves) < MaxSaves
                               /\ readings' = store_reading(readings, o.reading[1])
                               /\ device_readings' =
                                      index_reading(device_readings, o.reading[1])
                               /\ saves' = Append(saves, o.reading[1])
                               /\ next_uuid' = next_uuid + 1
                               /\ last' = Response("record_vital_reading", request,
                                              rendered(HTTP_201_CREATED,
                                                       {o.reading[1].weight_kg}),
                                              {}, Some(record_result(o.reading[1])))
    /\ UNCHANGED entityVars
    /\ UNCHANGED asyncVars

\* POST /api/v1/iot/vital-data: the dto is built inside the try, and every
\* exception is answered with 400 and str(e)
PostIotVitalData ==
    /\ last = None
    /\ \E device_id \in BodyDeviceInputs, weight \in BodyWeightInputs,
          heart_rate \in BodyHeartRateInputs, nan_in_bounds \in BOOLEAN,
          now \in clock .. MaxTime :
          LET request == [device_id |-> device_id, weight_kg |-> weight,
                          heart_rate_bpm |-> heart_rate]
              v == VitalReadingDto(device_id, weight, heart_rate, nan_in_bounds)
          IN  IF v.errors # {}
              THEN /\ last' = Response("receive_iot_data", request,
                                       HTTP_400_BAD_REQUEST, v.errors, None)
                   /\ UNCHANGED <<readings, device_readings, saves, next_uuid, clock>>
              ELSE LET dto == v.dto[1]
                       o == VitalReading(dto.device_id, dto.weight_kg,
                                         dto.heart_rate_bpm, next_uuid, now, None, None)
                   IN  /\ clock' = now
                       /\ IF o.error # ""
                          THEN /\ last' = Response("receive_iot_data", request,
                                                   HTTP_400_BAD_REQUEST, {o.error}, None)
                               /\ UNCHANGED <<readings, device_readings, saves, next_uuid>>
                          ELSE /\ Len(saves) < MaxSaves
                               /\ readings' = store_reading(readings, o.reading[1])
                               /\ device_readings' =
                                      index_reading(device_readings, o.reading[1])
                               /\ saves' = Append(saves, o.reading[1])
                               /\ next_uuid' = next_uuid + 1
                               /\ last' = Response("receive_iot_data", request,
                                              HTTP_202_ACCEPTED, {},
                                              Some([accepted |-> TRUE,
                                                    reading_id |-> next_uuid]))
    /\ UNCHANGED entityVars
    /\ UNCHANGED asyncVars

\* GET /api/v1/vital-monitoring/devices/{device_id}/status, as a function of
\* the store: the status code and the handler's result
status_response(rd, idx, device_id) ==
    LET result == get_device_status(rd, idx, device_id)
    IN  IF result = None
        THEN [status_code |-> HTTP_404_NOT_FOUND, data |-> None]
        ELSE [status_code |-> rendered(HTTP_200_OK, {result[1].current_status.weight_kg}),
              data |-> result]

\* GET /api/v1/vital-monitoring/devices/{device_id}/history?limit=...
history_response(rd, idx, device_id, limit) ==
    LET result == get_vital_history(rd, idx, device_id, limit)
    IN  [status_code |-> rendered(HTTP_200_OK, { r.weight_kg : r \in Range(result) }),
         data |-> Some([device_id |-> device_id, readings_count |-> Len(result),
                        readings |-> result])]

GetStatus ==
    /\ last = None
    /\ \E device_id \in PathDeviceInputs :
          LET r == status_response(readings, device_readings, device_id)
          IN  last' = Response("get_device_status", [device_id |-> device_id],
                               r.status_code, {}, r.data)
    /\ UNCHANGED <<readings, device_readings, next_uuid, clock, saves>>
    /\ UNCHANGED entityVars
    /\ UNCHANGED asyncVars

GetHistory ==
    /\ last = None
    /\ \E device_id \in PathDeviceInputs, limit \in LimitInputs :
          LET r == history_response(readings, device_readings, device_id, limit)
          IN  last' = Response("get_vital_history",
                               [device_id |-> device_id, limit |-> limit],
                               r.status_code, {}, r.data)
    /\ UNCHANGED <<readings, device_readings, next_uuid, clock, saves>>
    /\ UNCHANGED entityVars
    /\ UNCHANGED asyncVars

NextAdapter ==
    \/ PostReadings
    \/ PostIotVitalData
    \/ GetStatus
    \/ GetHistory
    \/ Return

SpecAdapter == Init /\ [][NextAdapter]_vars

-----------------------------------------------------------------------------
(* Properties of the transport adapter *)

WritePaths == {"record_vital_reading", "receive_iot_data"}

\* the request's inputs violate one of the validation rules
ViolatesRule(request) ==
    \/ strip(request.device_id) = <<>>
    \/ ~WeightInBounds(request.weight_kg)
    \/ request.heart_rate_bpm < 30
    \/ request.heart_rate_bpm > 220

\* C13: on both write paths a request whose inputs violate a validation rule
\* is answered with 400 and the validation message, never with a success or a
\* server error.
C13_ValidationFailureIs400 ==
    (last # None /\ last[1].op \in WritePaths /\ ViolatesRule(last[1].request)) =>
        /\ last[1].status_code = HTTP_400_BAD_REQUEST
        /\ last[1].detail # {}

\* what does hold of a request whose inputs violate a rule and whose weight is
\* a number: a client error that carries a message and leaves the store alone,
\* 400 on the IoT path and 422 on the readings path
C13_ClientErrorForNumbers ==
    (last # None /\ last[1].op \in WritePaths /\ ViolatesRule(last[1].request)
                 /\ ~last[1].request.weight_kg.nan) =>
        /\ last[1].detail # {}
        /\ last[1].data = None
        /\ last[1].op = "receive_iot_data" =>
              last[1].status_code = HTTP_400_BAD_REQUEST
        /\ last[1].op = "record_vital_reading" =>
              last[1].status_code = HTTP_422_UNPROCESSABLE_ENTITY

\* C15: the device-status query returns None, and the adapter answers 404, iff
\* no reading has been saved for the device id; otherwise it returns the
\* reading find_latest_by_device gives, with total_readings equal to
\* count_by_device of the device, which is at least 1.
C15_StatusNotFoundIffNoReading ==
    Returned("get_device_status") =>
        LET D == last[1].device_id[1]
            result == last[1].result
            response == status_response(readings, device_readings, D)
            latest == find_latest_by_device(readings, device_readings, D)
        IN  /\ result = None <=> SavedFor(D) = <<>>
            /\ response.status_code = HTTP_404_NOT_FOUND <=> SavedFor(D) = <<>>
            /\ response.data = result
            /\ result # None =>
                  /\ latest # None
                  /\ result[1].latest_reading = to_dict(latest[1])
                  /\ result[1].last_contact = latest[1].timestamp
                  /\ result[1].current_status.heart_rate_bpm = latest[1].heart_rate_bpm
                  /\ result[1].total_readings
                        = count_by_device(readings, device_readings, D)
                  /\ result[1].total_readings >= 1

\* the status of a device with two readings has been returned, the store
\* holding a reading of another device as well
C15_Witness ==
    /\ Returned("get_device_status")
    /\ last[1].result # None
    /\ last[1].result[1].total_readings = 2
    /\ Len(readings) = 3
    /\ UniqueIds

QueryOps ==
    {"find_by_id", "find_by_device", "find_latest_by_device", "count_by_device",
     "find_critical_readings", "get_device_status", "get_vital_history"}

\* C16: every call of find_by_id, find_by_device, find_latest_by_device,
\* count_by_device, find_critical_readings and of the status and history
\* handlers leaves the primary map and every device index unchanged, the order
\* of the ids inside each index included, whatever the arguments.
C16_QueriesLeaveStore ==
    [][ (last' # None /\ last'[1].op \in QueryOps) =>
            /\ readings' = readings
            /\ device_readings' = device_readings ]_vars

\* find_by_device has returned two readings of a device in the reverse of the
\* order of their saves, and the device's index still lists them in the order
\* of their saves
C16_Witness ==
    /\ Returned("find_by_device")
    /\ UniqueIds
    /\ LET D == last[1].device_id[1]
           res == last[1].result
       IN  /\ Len(SavedFor(D)) = 2
           /\ res = <<SavedFor(D)[2], SavedFor(D)[1]>>
           /\ device_readings[D] = SavedIds(D)

Max(m, n) == IF m >= n THEN m ELSE n

\* C17: for every device and every integer limit, 0 and negative values
\* included, find_by_device, called directly or through the history query,
\* returns no more than max(limit, 0) readings.
C17_LimitIsMaximum ==
    (Returned("find_by_device") \/ Returned("get_vital_history")) =>
        Len(last[1].result) <= Max(last[1].limit, 0)

\* what does hold: a limit that is not negative is the maximum, and a negative
\* limit -n leaves out the n oldest readings of the device
C17_HoldsForNonNegative ==
    (Returned("find_by_device") \/ Returned("get_vital_history")) =>
        LET n == count_by_device(readings, device_readings, last[1].device_id[1])
        IN  /\ last[1].limit >= 0 => Len(last[1].result) <= last[1].limit
            /\ last[1].limit < 0 => Len(last[1].result) = Max(n + last[1].limit, 0)

-----------------------------------------------------------------------------
(* SpecRecordOnly: readings reach the store through the command handler only,
   each with the clock's value at its construction *)

NextRecordOnly ==
    \/ Record
    \/ FindLatestByDevice
    \/ GetDeviceStatus
    \/ Return

SpecRecordOnly == Init /\ [][NextRecordOnly]_vars

\* the reading the last call reported as the latest of its device, as to_dict
\* gives it; <<>> if it reported none
ReportedLatest ==
    IF last[1].result = None THEN None
    ELSE IF last[1].op = "get_device_status" THEN Some(last[1].result[1].latest_reading)
    ELSE Some(to_dict(last[1].result[1]))

\* the first recorded of the readings in s that carry the greatest timestamp
FirstOfNewest(s) ==
    s[CHOOSE i \in DOMAIN s :
          /\ \A j \in DOMAIN s : s[j].timestamp <= s[i].timestamp
          /\ \A j \in 1 .. (i - 1) : s[j].timestamp < s[i].timestamp]

\* C18 as stated: with readings reaching the store through the command handler
\* only, their timestamps never decreasing but possibly equal,
\* find_latest_by_device(D) and the device-status query return the reading most
\* recently recorded for D.
C18_AsStated ==
    ((Returned("find_latest_by_device") \/ Returned("get_device_status"))
        /\ SavedFor(last[1].device_id[1]) # <<>>) =>
        LET s == SavedFor(last[1].device_id[1])
        IN  ReportedLatest = Some(to_dict(s[Len(s)]))

\* C18, amended: the timestamps never decrease from one recording to the next,
\* and find_latest_by_device(D) and the device-status query return the reading
\* of D with the greatest timestamp: the most recently recorded one when its
\* timestamp is greater than that of every earlier recording of D, and the
\* first recorded of those that share the greatest timestamp otherwise.
C18_LatestRecorded ==
    /\ \A i, j \in DOMAIN saves : i < j => saves[i].timestamp <= saves[j].timestamp
    /\ ((Returned("find_latest_by_device") \/ Returned("get_device_status"))
           /\ SavedFor(last[1].device_id[1]) # <<>>) =>
           LET s == SavedFor(last[1].device_id[1])
           IN  /\ ReportedLatest = Some(to_dict(FirstOfNewest(s)))
               /\ (\A j \in 1 .. (Len(s) - 1) : s[j].timestamp < s[Len(s)].timestamp) =>
                      ReportedLatest = Some(to_dict(s[Len(s)]))

\* the status of a device has been returned whose three recordings carry an
\* older timestamp and then twice the newest: the reading reported is the
\* second recording
C18_Witness ==
    /\ Returned("get_device_status")
    /\ LET s == SavedFor(last[1].device_id[1])
       IN  /\ Len(s) = 3
           /\ s[1].timestamp < s[2].timestamp
           /\ s[2].timestamp = s[3].timestamp
           /\ ReportedLatest = Some(to_dict(s[2]))

-----------------------------------------------------------------------------
(* SpecAsync: the requests as tasks of one asyncio event loop, statement by
   statement.  main.py declares every endpoint `async def`, so each request
   runs as a coroutine on the loop's single thread, and a coroutine gives the
   loop to another only at an await that suspends.  The handlers and the
   repository await nothing but each other's coroutines, none of which
   suspends: a task that has begun runs to its end. *)

MaxTasks == 3

Tasks == 1 .. MaxTasks

\* a task before its request is known
NoRequest == [kind |-> "", device_id |-> <<>>, reading |-> None, error |-> "", seen |-> <<>>]

InitAsync ==
    /\ EntityIdle
    /\ StoreEmpty
    /\ pc = [t \in Tasks |-> "start"]
    /\ local = [t \in Tasks |-> NoRequest]
    /\ running = None
    /\ completed = <<>>

may_run_preemptive(t) == TRUE

\* the event loop resumes task t: no other task is between its begin and its end
may_run(t) == running = None \/ running = Some(t)

\* what a query that runs now has before it
snapshot == [readings |-> readings, device_readings |-> device_readings]

\* record_vital_reading: the command handler constructs the reading; a
\* ValueError ends the request
AsyncRecord(t) ==
    /\ pc[t] = "start"
    /\ may_run(t)
    /\ \E device_id \in CommandDeviceInputs, v \in CommandVitalsInputs,
          now \in clock .. MaxTime :
          LET o == VitalReading(device_id, v[1], v[2], next_uuid, now, None, None)
          IN  /\ clock' = now
              /\ IF o.error # ""
                 THEN /\ pc' = [pc EXCEPT ![t] = "done"]
                      /\ local' = [local EXCEPT ![t] =
                             [NoRequest EXCEPT !.kind = "record",
                                               !.device_id = device_id,
                                               !.error = o.error]]
                      /\ running' = None
                      /\ UNCHANGED next_uuid
                 ELSE /\ pc' = [pc EXCEPT ![t] = "store"]
                      /\ local' = [local EXCEPT ![t] =
                             [NoRequest EXCEPT !.kind = "record",
                                               !.device_id = device_id,
                                               !.reading = o.reading]]
                      /\ running' = Some(t)
                      /\ next_uuid' = next_uuid + 1
    /\ UNCHANGED <<readings, device_readings, saves, last, completed>>
    /\ UNCHANGED entityVars

\* save: self._readings[vital_reading.reading_id] = vital_reading
AsyncSaveStore(t) ==
    /\ pc[t] = "store"
    /\ may_run(t)
    /\ readings' = store_reading(readings, local[t].reading[1])
    /\ pc' = [pc EXCEPT ![t] = "check"]
    /\ running' = Some(t)
    /\ UNCHANGED <<device_readings, next_uuid, clock, saves, last, local, completed>>
    /\ UNCHANGED entityVars

\* save: if vital_reading.device_id not in self._device_readings
AsyncSaveCheck(t) ==
    /\ pc[t] = "check"
    /\ may_run(t)
    /\ pc' = [pc EXCEPT ![t] = IF index_missing(device_readings, local[t].reading[1])
                                THEN "create" ELSE "append"]
    /\ running' = Some(t)
    /\ UNCHANGED <<readings, device_readings, next_uuid, clock, saves, last, local,
                   completed>>
    /\ UNCHANGED entityVars

\* save: self._device_readings[vital_reading.device_id] = []
AsyncSaveCreate(t) ==
    /\ pc[t] = "create"
    /\ may_run(t)
    /\ device_readings' = create_index(device_readings, local[t].reading[1])
    /\ pc' = [pc EXCEPT ![t] = "append"]
    /\ running' = Some(t)
    /\ UNCHANGED <<readings, next_uuid, clock, saves, last, local, completed>>
    /\ UNCHANGED entityVars

\* save: the append to the device's index, and the return
AsyncSaveAppend(t) ==
    /\ pc[t] = "append"
    /\ may_run(t)
    /\ device_readings' = append_index(device_readings, local[t].reading[1])
    /\ completed' = Append(completed, local[t].reading[1])
    /\ pc' = [pc EXCEPT ![t] = "done"]
    /\ running' = None
    /\ UNCHANGED <<readings, next_uuid, clock, saves, last, local>>
    /\ UNCHANGED entityVars

\* a repository query, or a query handler's first repository call, runs: it
\* has the two dicts before it as they are now
AsyncQuery(t, kind, device_id, next_pc) ==
    /\ pc[t] = "start"
    /\ may_run(t)
    /\ local' = [local EXCEPT ![t] =
           [NoRequest EXCEPT !.kind = kind, !.device_id = device_id,
                             !.seen = <<snapshot>>]]
    /\ pc' = [pc EXCEPT ![t] = next_pc]
    /\ running' = IF next_pc = "done" THEN None ELSE Some(t)
    /\ UNCHANGED <<readings, device_readings, next_uuid, clock, saves, last, completed>>
    /\ UNCHANGED entityVars

AsyncFindById(t) == AsyncQuery(t, "find_by_id", <<>>, "done")

AsyncFindByDevice(t) ==
    \E device_id \in QueryDeviceInputs : AsyncQuery(t, "find_by_device", device_id, "done")

AsyncFindLatestByDevice(t) ==
    \E device_id \in QueryDeviceInputs :
        AsyncQuery(t, "find_latest_by_device", device_id, "done")

AsyncCountByDevice(t) ==
    \E device_id \in QueryDeviceInputs : AsyncQuery(t, "count_by_device", device_id, "done")

AsyncFindCriticalReadings(t) ==
    \E device_id \in QueryDeviceInputs :
        AsyncQuery(t, "find_critical_readings", device_id, "done")

\* get_vital_history: the handler's one repository call
AsyncGetVitalHistory(t) ==
    \E device_id \in QueryDeviceInputs :
        AsyncQuery(t, "get_vital_history", device_id, "done")

\* get_device_status: find_latest_by_device; without a reading the handler
\* returns None, with one it goes on to count_by_device
AsyncGetDeviceStatus(t) ==
    \E device_id \in QueryDeviceInputs :
        AsyncQuery(t, "get_device_status", device_id,
                   IF find_latest_by_device(readings, device_readings, device_id) = None
                   THEN "done" ELSE "count")

\* get_device_status: count_by_device
AsyncStatusCount(t) ==
    /\ pc[t] = "count"
    /\ may_run(t)
    /\ local' = [local EXCEPT ![t].seen = Append(@, snapshot)]
    /\ pc' = [pc EXCEPT ![t] = "done"]
    /\ running' = None
    /\ UNCHANGED <<readings, device_readings, next_uuid, clock, saves, last, completed>>
    /\ UNCHANGED entityVars

NextAsync ==
    \E t \in Tasks :
        \/ AsyncRecord(t)
        \/ AsyncSaveStore(t)
        \/ AsyncSaveCheck(t)
        \/ AsyncSaveCreate(t)
        \/ AsyncSaveAppend(t)
        \/ AsyncFindById(t)
        \/ AsyncFindByDevice(t)
        \/ AsyncFindLatestByDevice(t)
        \/ AsyncCountByDevice(t)
        \/ AsyncFindCriticalReadings(t)
        \/ AsyncGetVitalHistory(t)
        \/ AsyncGetDeviceStatus(t)
        \/ AsyncStatusCount(t)

SpecAsync == InitAsync /\ [][NextAsync]_vars

-----------------------------------------------------------------------------
(* Properties of the concurrent requests *)

\* the (device_id, reading_id) of the readings in the primary map
Stored(rd) == { <<rd[i].device_id, rd[i].reading_id>> : i \in DOMAIN rd }

\* the (device_id, reading_id) the indexes list
Indexed(idx) == UNION { { <<D, idx[D][i]>> : i \in DOMAIN idx[D] } : D \in DOMAIN idx }

\* a save is between its first write and its last
SaveInFlight == \E t \in Tasks : pc[t] \in {"check", "create", "append"}

\* C9: no query has before it a reading that is in the primary map while its id
\* is not in its device's index, or an id in an index whose reading is not in
\* the primary map.
C9_SaveAtomicToQueries ==
    \A t \in Tasks : \A i \in DOMAIN local[t].seen :
        Stored(local[t].seen[i].readings) = Indexed(local[t].seen[i].device_readings)

\* a query has run between the saves of two other requests: it had one reading
\* before it, and the store holds two now
C9_Witness ==
    \E q, w \in Tasks :
        /\ local[q].kind = "find_by_device"
        /\ pc[q] = "done"
        /\ Len(local[q].seen[1].readings) = 1
        /\ local[w].kind = "record" /\ pc[w] = "done" /\ local[w].reading # None
        /\ Len(readings) = 2

\* the readings whose save has returned, for device D, in the order of return
CompletedFor(D) == SelectSeq(completed, LAMBDA r : r.device_id = D)

\* C10: once the concurrent saves have completed, the index of each device
\* holds the id of each of them once, in the order they took effect, and
\* count_by_device is their number; that holds from the first save of a
\* device, which creates its index.
C10_SavesSerialized ==
    (\A t \in Tasks : pc[t] \in {"start", "done"}) =>
        \A D \in SaveDeviceInputs :
            /\ count_by_device(readings, device_readings, D) = Len(CompletedFor(D))
            /\ D \in DOMAIN device_readings =>
                  /\ device_readings[D] =
                        [i \in DOMAIN CompletedFor(D) |-> CompletedFor(D)[i].reading_id]
                  /\ \A i, j \in DOMAIN device_readings[D] :
                        i # j => device_readings[D][i] # device_readings[D][j]
            /\ D \notin DOMAIN device_readings => CompletedFor(D) = <<>>

\* three requests have saved a reading each for one device, which had no index
\* before
C10_Witness ==
    /\ \A t \in Tasks : pc[t] = "done" /\ local[t].kind = "record"
    /\ \E D \in SaveDeviceInputs :
          /\ Len(CompletedFor(D)) = MaxTasks
          /\ count_by_device(readings, device_readings, D) = MaxTasks

====
